---- MODULE Spec2Model ----
(***************************************************************************)
(* Model of src/chatbot.py: the crisis detector, the history store, the    *)
(* per-turn orchestrator mental_health_chatbot and the CLI loop main.      *)
(* Text is modelled with TLA+ strings; the Python string methods used by   *)
(* the program (lower, strip, replace, split, join, in) are operators      *)
(* computed character by character.  Non-ASCII characters of the static    *)
(* text blocks (emoji, bullets) are written as ASCII.                      *)
(***************************************************************************)
EXTENDS Integers, Sequences, FiniteSets, TLC

(* ------------------------------ bounds --------------------------------- *)
MaxTurns == 11      \* calls of mental_health_chatbot are counted up to here
MaxVaried == 1      \* turns with a non-default line or stream in one run
MaxPad == 1         \* padding characters around a phrase (crisis detector)

(* --------------------------- string methods ---------------------------- *)
Uppercase == "ABCDEFGHIJKLMNOPQRSTUVWXYZ"
Lowercase == "abcdefghijklmnopqrstuvwxyz"
Whitespace == {" ", "\n", "\t", "\r"}

CharAt(s, i) == SubSeq(s, i, i)

\* str.lower() on one character
lower_char(c) ==
    IF \E i \in 1..Len(Uppercase) : CharAt(Uppercase, i) = c
    THEN CharAt(Lowercase, CHOOSE i \in 1..Len(Uppercase) : CharAt(Uppercase, i) = c)
    ELSE c

\* str.lower()
RECURSIVE lower(_)
lower(s) ==
    IF s = "" THEN ""
    ELSE lower_char(CharAt(s, 1)) \o lower(SubSeq(s, 2, Len(s)))

\* str.startswith
startswith(s, prefix) ==
    /\ Len(prefix) <= Len(s)
    /\ SubSeq(s, 1, Len(prefix)) = prefix

\* Python's `needle in haystack` for strings: a left-to-right scan
RECURSIVE contains(_, _)
contains(haystack, needle) ==
    IF Len(needle) > Len(haystack) THEN FALSE
    ELSE IF startswith(haystack, needle) THEN TRUE
    ELSE contains(SubSeq(haystack, 2, Len(haystack)), needle)

RECURSIVE lstrip(_)
lstrip(s) ==
    IF s # "" /\ CharAt(s, 1) \in Whitespace
    THEN lstrip(SubSeq(s, 2, Len(s)))
    ELSE s

RECURSIVE rstrip(_)
rstrip(s) ==
    IF s # "" /\ CharAt(s, Len(s)) \in Whitespace
    THEN rstrip(SubSeq(s, 1, Len(s) - 1))
    ELSE s

\* str.strip()
strip(s) == rstrip(lstrip(s))

\* str.replace(old, new): non-overlapping occurrences, left to right
RECURSIVE replace(_, _, _)
replace(s, old, new) ==
    IF s = "" THEN ""
    ELSE IF startswith(s, old)
         THEN new \o replace(SubSeq(s, Len(old) + 1, Len(s)), old, new)
         ELSE CharAt(s, 1) \o replace(SubSeq(s, 2, Len(s)), old, new)

\* str.split('\n'), scanning from position `from`
RECURSIVE split_lines(_, _)
split_lines(s, from) ==
    IF \E i \in from..Len(s) : CharAt(s, i) = "\n"
    THEN LET i == CHOOSE k \in from..Len(s) :
                      /\ CharAt(s, k) = "\n"
                      /\ \A j \in from..(k - 1) : CharAt(s, j) # "\n"
         IN  <<SubSeq(s, from, i - 1)>> \o split_lines(s, i + 1)
    ELSE <<SubSeq(s, from, Len(s))>>

\* '\n'.join(lines)
RECURSIVE join_lines(_)
join_lines(lines) ==
    IF lines = <<>> THEN ""
    ELSE IF Len(lines) = 1 THEN lines[1]
    ELSE lines[1] \o "\n" \o join_lines(Tail(lines))

\* [line.strip() for line in lines if line.strip()]
RECURSIVE non_empty_lines(_)
non_empty_lines(lines) ==
    IF lines = <<>> THEN <<>>
    ELSE IF strip(Head(lines)) # ""
         THEN <<strip(Head(lines))>> \o non_empty_lines(Tail(lines))
         ELSE non_empty_lines(Tail(lines))

\* list[-n:]
slice_first(s, n) == IF Len(s) > n THEN SubSeq(s, 1, n) ELSE s
slice_last(s, n) == IF Len(s) > n THEN SubSeq(s, Len(s) - n + 1, Len(s)) ELSE s

(* -------------------------- program constants -------------------------- *)
HISTORY_LIMIT == 20     \* messages kept in the persisted log
CONTEXT_WINDOW == 10    \* messages of the log sent with a request

CRISIS_KEYWORDS ==
    << "suicide", "kill myself", "end my life", "want to die", "suicidal",
       "harm myself", "self harm", "cut myself", "overdose", "not worth living",
       "better off dead", "ending it all", "can't go on", "hopeless" >>

\* the persona prompt (static text; only its first and last sentences are kept)
MENTAL_HEALTH_SYSTEM ==
    "You are MindfulBot, a compassionate and professionally-trained mental health support chatbot created to help User.\n\nRespond with empathy, practical support, and appropriate resources while maintaining professional boundaries."

CRISIS_INSTRUCTION ==
    "ALERT: User may be in crisis. Respond with immediate empathy, validation, and provide crisis resources. Encourage immediate professional help."

FALLBACK_APOLOGY ==
    "I apologize, but I encountered a technical issue. Let's start fresh. How are you feeling right now, and how can I support you today?"

EXIT_WORDS == {"quit", "exit", "goodbye", "bye"}

get_crisis_resources ==
    "\nIMMEDIATE CRISIS RESOURCES:\n\nUnited States:\n* National Suicide Prevention Lifeline: 988\n* Crisis Text Line: Text HOME to 741741\n* Emergency: 911\n\nUnited Kingdom:\n* Samaritans: 116 123\n* Emergency: 999\n\nCanada:\n* Talk Suicide Canada: 1-833-456-4566\n* Emergency: 911\n\nInternational:\n* International Association for Suicide Prevention: https://www.iasp.info/resources/Crisis_Centres/\n\nRemember: You matter, your life has value, and help is available. Please reach out to these resources or go to your nearest emergency room if you're in immediate danger.\n"

\* datetime.now() formatted with "%A, %B %d, %Y at %I:%M %p": the clock is
\* outside the program, so the value is any of the instants below
Clock == {"Monday, January 05, 2026 at 09:30 AM"}

(* --------------------------- pure functions ---------------------------- *)
Message(role, content) == [role |-> role, content |-> content]

\* variant of check_crisis_keywords that matches the text as typed
check_crisis_keywords_as_typed(text) ==
    \E k \in 1..Len(CRISIS_KEYWORDS) : contains(text, CRISIS_KEYWORDS[k])

check_crisis_keywords(text) ==
    LET text_lower == lower(text)
    IN  \E k \in 1..Len(CRISIS_KEYWORDS) : contains(text_lower, CRISIS_KEYWORDS[k])

clean_response(response) ==
    join_lines(non_empty_lines(split_lines(response, 1)))

\* the system messages of one request
system_messages(crisis, now) ==
    << Message("system", MENTAL_HEALTH_SYSTEM),
       Message("system", "Current date and time: " \o now) >>
    \o (IF crisis THEN <<Message("system", CRISIS_INSTRUCTION)>> ELSE <<>>)

\* variant of context_window that sends the whole log
context_window_whole(msgs) == msgs

\* messages[-10:]
context_window(msgs) == slice_last(msgs, CONTEXT_WINDOW)

\* variant of truncate_history that never drops a message
truncate_history_never(msgs) == msgs

\* if len(messages) > 20: messages = messages[-20:]
truncate_history(msgs) ==
    IF Len(msgs) > HISTORY_LIMIT THEN slice_last(msgs, HISTORY_LIMIT) ELSE msgs

\* response accumulated from the streamed chunks (empty deltas are skipped)
RECURSIVE collect_response(_)
collect_response(chunks) ==
    IF chunks = <<>> THEN ""
    ELSE IF Head(chunks) # ""
         THEN Head(chunks) \o collect_response(Tail(chunks))
         ELSE collect_response(Tail(chunks))

\* response.replace("</s>", "").strip(), then the crisis block if needed
final_response(streamed_text, crisis) ==
    LET cleaned == strip(replace(streamed_text, "</s>", ""))
    IN  IF crisis THEN cleaned \o "\n\n" \o get_crisis_resources ELSE cleaned

\* variant of read_input that keeps the surrounding whitespace
read_input_untrimmed(line) == line

\* input(...).strip()
read_input(line) == strip(line)

(* ------------------------------- inputs -------------------------------- *)
DefaultLine == "I had a great day"
VariedLines == {"  I feel HOPELESS today "}
ExitLines == {"  Quit  ", "bye", "EXIT", " Goodbye\t"}
EmptyLines == {"", "   "}
Lines == {DefaultLine} \cup VariedLines \cup ExitLines \cup EmptyLines

DefaultStream == <<"I hear ", "", "you.">>
VariedStreams == { <<"  Line one\n", "\n  line two  ", "</s>\n">> }
Streams == {DefaultStream} \cup VariedStreams

(* ------------- the pure functions tabulated over the inputs ------------ *)
\* Each table holds the values of one function on the inputs above, so that a
\* value is computed once and not again in every state.
UserInputs == {read_input(l) : l \in Lines}
StreamedTexts == {collect_response(c) : c \in Streams}
Responses == {final_response(t, b) : t \in StreamedTexts, b \in BOOLEAN}

read_input_of == [l \in Lines |-> read_input(l)]
lower_of == [u \in UserInputs |-> lower(u)]
check_crisis_keywords_of == [u \in UserInputs |-> check_crisis_keywords(u)]
collect_response_of == [c \in Streams |-> collect_response(c)]
final_response_of == [t \in StreamedTexts, b \in BOOLEAN |-> final_response(t, b)]
clean_response_of == [r \in Responses |-> clean_response(r)]

(* -------------------------------- state -------------------------------- *)
VARIABLES
    pc,           \* position of main: "input", "request", "stream", "print",
                  \* "except", "terminated" ("check", "checked": detector runs)
    stdin_line,   \* <<line>> read by the last input() call, <<>> if it raised
    user_input,   \* main's user_input / the argument of mental_health_chatbot
    is_crisis,    \* mental_health_chatbot's is_crisis
    fileExists,   \* mental_health_chat.json exists
    fileData,     \* the list of Messages it holds
    messages,     \* mental_health_chatbot's local list
    request,      \* messages= of the last completions.create call of the turn
    streamed,     \* response as collected from the stream
    response,     \* response as appended to messages
    returned,     \* <<text>> returned by mental_health_chatbot, <<>> if none
    dropped,      \* Messages removed by the truncation of this turn
    outcome,      \* how the turn's try block ended
    raised,       \* exception that reached main's handlers
    turns,        \* calls of mental_health_chatbot so far (up to MaxTurns)
    varied        \* non-default inputs used so far

vars == << pc, stdin_line, user_input, is_crisis, fileExists, fileData, messages,
           request, streamed, response, returned, dropped, outcome, raised,
           turns, varied >>

file == <<fileExists, fileData>>
turn_locals == <<is_crisis, messages, request, streamed, response, returned, dropped,
                 outcome>>
counters == <<turns, varied>>

Init ==
    /\ pc = "input"
    /\ stdin_line = <<>>
    /\ user_input = ""
    /\ is_crisis = FALSE
    /\ fileExists \in BOOLEAN
    /\ fileData = <<>>
    /\ messages = <<>>
    /\ request = <<>>
    /\ streamed = ""
    /\ response = ""
    /\ returned = <<>>
    /\ dropped = 0
    /\ outcome = "none"
    /\ raised = "none"
    /\ turns = 0
    /\ varied = 0

(* ----------------------------- history store --------------------------- *)
\* load_conversation_history: the list read, [] when the file is missing
load_conversation_history == IF fileExists THEN fileData ELSE <<>>

(* ------------------------------ CLI loop ------------------------------- *)
\* an exit word: farewell and break
ReadExit(line) ==
    /\ pc = "input"
    /\ lower_of[read_input_of[line]] \in EXIT_WORDS
    /\ stdin_line' = <<line>>
    /\ user_input' = read_input_of[line]
    /\ raised' = "none"
    /\ pc' = "terminated"
    /\ UNCHANGED <<file, turn_locals, counters>>

\* an empty line: continue
ReadEmpty(line) ==
    /\ pc = "input"
    /\ lower_of[read_input_of[line]] \notin EXIT_WORDS
    /\ read_input_of[line] = ""
    /\ stdin_line' = <<line>>
    /\ user_input' = read_input_of[line]
    /\ raised' = "none"
    /\ pc' = "input"
    /\ UNCHANGED <<file, turn_locals, counters>>

\* any other line: mental_health_chatbot is called
ReadTurn(line) ==
    /\ pc = "input"
    /\ lower_of[read_input_of[line]] \notin EXIT_WORDS
    /\ read_input_of[line] # ""
    /\ line = DefaultLine \/ varied < MaxVaried
    /\ stdin_line' = <<line>>
    /\ user_input' = read_input_of[line]
    /\ raised' = "none"
    /\ pc' = "request"
    /\ turns' = IF turns < MaxTurns THEN turns + 1 ELSE turns
    /\ varied' = IF line = DefaultLine THEN varied ELSE varied + 1
    /\ UNCHANGED <<file, turn_locals>>

\* KeyboardInterrupt while waiting in input(): farewell and break
ReadInterrupt ==
    /\ pc = "input"
    /\ stdin_line' = <<>>
    /\ raised' = "KeyboardInterrupt"
    /\ pc' = "terminated"
    /\ UNCHANGED <<user_input, file, turn_locals, counters>>

\* input() raises EOFError: caught by main's except Exception
ReadEOF ==
    /\ pc = "input"
    /\ stdin_line' = <<>>
    /\ raised' = "EOFError"
    /\ pc' = "except"
    /\ UNCHANGED <<user_input, file, turn_locals, counters>>

\* the frame of a finished call: its locals no longer exist
NoCall ==
    /\ is_crisis' = FALSE
    /\ messages' = <<>>
    /\ request' = <<>>
    /\ streamed' = ""
    /\ response' = ""
    /\ returned' = <<>>
    /\ dropped' = 0
    /\ outcome' = "none"

\* print(response): the iteration ends
PrintResponse ==
    /\ pc = "print"
    /\ pc' = "input"
    /\ NoCall
    /\ UNCHANGED <<stdin_line, user_input, file, raised, counters>>

\* variant of MainExcept that leaves the loop
MainExceptBreaks ==
    /\ pc = "except"
    /\ pc' = "terminated"
    /\ NoCall
    /\ UNCHANGED <<stdin_line, user_input, file, raised, counters>>

\* except Exception in main: print the error, next iteration
MainExcept ==
    /\ pc = "except"
    /\ pc' = "input"
    /\ raised' = "none"
    /\ NoCall
    /\ UNCHANGED <<stdin_line, user_input, file, counters>>

(* ------------------------ mental_health_chatbot ------------------------ *)
\* variant of ExceptionHandler that leaves the log as it is
ExceptionHandlerKeepsLog(kind, reset_ok) ==
    /\ outcome' = kind
    /\ fileData' = fileData
    /\ fileExists' = TRUE
    /\ returned' = <<FALLBACK_APOLOGY>>
    /\ raised' = "none"
    /\ pc' = "print"

\* variant of ExceptionHandler that saves the messages gathered so far
ExceptionHandlerSavesMessages(kind, reset_ok) ==
    /\ outcome' = kind
    /\ fileData' = messages'
    /\ fileExists' = TRUE
    /\ returned' = <<FALLBACK_APOLOGY>>
    /\ raised' = "none"
    /\ pc' = "print"

\* except Exception: the log is rewritten as [] and the apology returned.
\* reset_ok is FALSE when that write raises too (the storage fault that
\* brought control here persists and open fails): the exception then leaves
\* the function and the file stays as it was
ExceptionHandler(kind, reset_ok) ==
    /\ outcome' = kind
    /\ IF reset_ok
       THEN /\ fileData' = <<>>
            /\ fileExists' = TRUE
            /\ returned' = <<FALLBACK_APOLOGY>>
            /\ raised' = "none"
            /\ pc' = "print"
       ELSE /\ fileData' = fileData
            /\ fileExists' = fileExists
            /\ returned' = <<>>
            /\ raised' = "OSError"
            /\ pc' = "except"

\* load_conversation_history raises (the file cannot be opened for reading)
LoadRaises(reset_ok) ==
    /\ pc = "request"
    /\ fileExists
    /\ is_crisis' = check_crisis_keywords_of[user_input]
    /\ messages' = <<>>
    /\ UNCHANGED <<stdin_line, user_input, request, streamed, response, dropped,
                   counters>>
    /\ ExceptionHandler("load_raise", reset_ok)

\* crisis check, load, append the user Message, build the context and create
\* the completion request
RequestOk(now) ==
    /\ pc = "request"
    /\ is_crisis' = check_crisis_keywords_of[user_input]
    /\ messages' = Append(load_conversation_history, Message("user", user_input))
    /\ request' = system_messages(is_crisis', now) \o context_window(messages')
    /\ fileExists' = TRUE
    /\ fileData' = load_conversation_history
    /\ pc' = "stream"
    /\ UNCHANGED <<stdin_line, user_input, streamed, response, returned, dropped,
                   outcome, raised, counters>>

\* the same, but client.chat.completions.create raises
RequestRaises(now) ==
    /\ pc = "request"
    /\ is_crisis' = check_crisis_keywords_of[user_input]
    /\ messages' = Append(load_conversation_history, Message("user", user_input))
    /\ request' = system_messages(is_crisis', now) \o context_window(messages')
    /\ UNCHANGED <<stdin_line, user_input, streamed, response, dropped, counters>>
    /\ ExceptionHandler("create_raise", TRUE)

\* a non-default stream counts as a varied input unless the turn's line did
StreamAllowed(chunks) ==
    \/ chunks = DefaultStream
    \/ stdin_line # <<DefaultLine>>
    \/ varied < MaxVaried

VariedAfter(chunks) ==
    IF chunks = DefaultStream \/ stdin_line # <<DefaultLine>>
    THEN varied ELSE varied + 1

\* the stream is consumed to its end; the reply is cleaned, appended, the log
\* truncated and saved, and the collapsed text returned
StreamOk(chunks) ==
    /\ pc = "stream"
    /\ StreamAllowed(chunks)
    /\ varied' = VariedAfter(chunks)
    /\ streamed' = collect_response_of[chunks]
    /\ response' = final_response_of[streamed', is_crisis]
    /\ messages' = truncate_history(Append(messages, Message("assistant", response')))
    /\ dropped' = Len(messages) + 1 - Len(messages')
    /\ fileData' = messages'
    /\ fileExists' = TRUE
    /\ returned' = <<clean_response_of[response']>>
    /\ outcome' = "ok"
    /\ pc' = "print"
    /\ UNCHANGED <<stdin_line, user_input, is_crisis, request, raised, turns>>

\* the same, but save_conversation_history raises (open for writing fails)
SaveRaises(chunks, reset_ok) ==
    /\ pc = "stream"
    /\ StreamAllowed(chunks)
    /\ varied' = VariedAfter(chunks)
    /\ streamed' = collect_response_of[chunks]
    /\ response' = final_response_of[streamed', is_crisis]
    /\ messages' = truncate_history(Append(messages, Message("assistant", response')))
    /\ dropped' = Len(messages) + 1 - Len(messages')
    /\ UNCHANGED <<stdin_line, user_input, is_crisis, request, turns>>
    /\ ExceptionHandler("save_raise", reset_ok)

\* the stream raises while it is being consumed
StreamRaises ==
    /\ pc = "stream"
    /\ UNCHANGED <<stdin_line, user_input, is_crisis, messages, request, streamed,
                   response, dropped, counters>>
    /\ ExceptionHandler("stream_raise", TRUE)

\* KeyboardInterrupt while waiting on the stream: not an Exception, so it
\* passes the function's handler and reaches main's, which breaks
StreamInterrupt ==
    /\ pc = "stream"
    /\ raised' = "KeyboardInterrupt"
    /\ pc' = "terminated"
    /\ UNCHANGED <<stdin_line, user_input, file, turn_locals, counters>>

(* ---------------------------- specification ---------------------------- *)
Next ==
    \/ \E line \in Lines : ReadExit(line)
    \/ \E line \in Lines : ReadEmpty(line)
    \/ \E line \in Lines : ReadTurn(line)
    \/ ReadInterrupt
    \/ ReadEOF
    \/ \E reset_ok \in BOOLEAN : LoadRaises(reset_ok)
    \/ \E now \in Clock : RequestOk(now)
    \/ \E now \in Clock : RequestRaises(now)
    \/ \E chunks \in Streams : StreamOk(chunks)
    \/ \E chunks \in Streams, reset_ok \in BOOLEAN : SaveRaises(chunks, reset_ok)
    \/ StreamRaises
    \/ StreamInterrupt
    \/ PrintResponse
    \/ MainExcept

Spec == Init /\ [][Next]_vars

(* ----------------- specification of the crisis detector ---------------- *)
upper_char(c) ==
    IF \E i \in 1..Len(Lowercase) : CharAt(Lowercase, i) = c
    THEN CharAt(Uppercase, CHOOSE i \in 1..Len(Lowercase) : CharAt(Lowercase, i) = c)
    ELSE c

RECURSIVE upper(_)
upper(s) ==
    IF s = "" THEN ""
    ELSE upper_char(CharAt(s, 1)) \o upper(SubSeq(s, 2, Len(s)))

PadChars == {"x", "S"}

\* the strings over PadChars of length at most n
RECURSIVE Pads(_)
Pads(n) ==
    IF n = 0 THEN {""}
    ELSE Pads(n - 1) \cup {p \o c : p \in Pads(n - 1), c \in PadChars}

\* each keyword as listed, in capitals, and with its last or first character
\* missing; and a text without any keyword
Phrases ==
    UNION { { CRISIS_KEYWORDS[k],
              upper(CRISIS_KEYWORDS[k]),
              SubSeq(CRISIS_KEYWORDS[k], 1, Len(CRISIS_KEYWORDS[k]) - 1),
              SubSeq(CRISIS_KEYWORDS[k], 2, Len(CRISIS_KEYWORDS[k])) }
            : k \in 1..Len(CRISIS_KEYWORDS) }
    \cup {DefaultLine}

CrisisInputs == {pre \o mid \o post : pre \in Pads(MaxPad), mid \in Phrases, post \in Pads(MaxPad)}

InitCrisis ==
    /\ pc = "check"
    /\ stdin_line = <<>>
    /\ user_input \in CrisisInputs
    /\ is_crisis = FALSE
    /\ fileExists = FALSE
    /\ fileData = <<>>
    /\ messages = <<>>
    /\ request = <<>>
    /\ streamed = ""
    /\ response = ""
    /\ returned = <<>>
    /\ dropped = 0
    /\ outcome = "none"
    /\ raised = "none"
    /\ turns = 0
    /\ varied = 0

\* is_crisis = check_crisis_keywords(user_input)
CheckCrisis ==
    /\ pc = "check"
    /\ is_crisis' = check_crisis_keywords(user_input)
    /\ pc' = "checked"
    /\ UNCHANGED <<stdin_line, user_input, file, messages, request, streamed, response,
                   returned, dropped, outcome, raised, counters>>

NextCrisis == CheckCrisis

SpecCrisis == InitCrisis /\ [][NextCrisis]_vars

(* ------------------------------- claims -------------------------------- *)
\* the Message at the end of a non-empty list
LastOf(msgs) == msgs[Len(msgs)]

\* C1: the persisted log never holds more than 20 Messages, and a successful
\* turn leaves the newest 20 of (old log, user Message, assistant Message),
\* in their order
LogCappedAt20 ==
    /\ [](Len(fileData) <= 20)
    /\ [][ (pc = "stream" /\ outcome' = "ok") =>
           LET full == fileData \o << Message("user", user_input),
                                      Message("assistant", response') >>
               kept == IF Len(full) > 20 THEN 20 ELSE Len(full)
           IN  /\ Len(fileData') = kept
               /\ \A i \in 1..kept : fileData'[i] = full[Len(full) - kept + i] ]_vars

\* a successful turn has dropped the two oldest Messages of a full log
WitnessTruncated ==
    /\ pc = "print"
    /\ outcome = "ok"
    /\ dropped = 2
    /\ Len(fileData) = 20

\* C2 (as claimed): after more than 10 turns, whatever the outcome of the
\* latest one, the log ends with the assistant Message of that turn
EndsWithLatestReplyWhateverOutcome ==
    (turns > 10 /\ pc = "print") =>
        /\ fileData # <<>>
        /\ LastOf(fileData) = Message("assistant", response)

\* C2 (amended): after more than 10 turns, the log ends with the assistant
\* Message of the latest turn when that turn succeeded, and is empty when the
\* turn faulted and the fallback was returned
EndsWithLatestReplyOnSuccess ==
    (turns > 10 /\ pc = "print") =>
        IF outcome = "ok"
        THEN /\ fileData # <<>>
             /\ LastOf(fileData) = Message("assistant", response)
        ELSE fileData = <<>>

\* the eleventh or a later turn has succeeded on a log that was full
WitnessLatestReplyLast ==
    /\ turns > 10
    /\ pc = "print"
    /\ outcome = "ok"
    /\ dropped > 0
    /\ LastOf(fileData).role = "assistant"

\* C3: a request carries 3 (crisis) or 2 system Messages followed by the last
\* 10 at most of (log, current user Message), the user input last
ContextWindowBounded ==
    [][ (pc = "request" /\ request' # <<>>) =>
        LET hist == Append(IF fileExists THEN fileData ELSE <<>>,
                           Message("user", user_input))
            nsys == IF is_crisis' THEN 3 ELSE 2
            nhist == Len(request') - nsys
        IN  /\ nhist >= 1
            /\ nhist <= 10
            /\ nhist = (IF Len(hist) > 10 THEN 10 ELSE Len(hist))
            /\ \A i \in 1..nsys : request'[i].role = "system"
            /\ \A i \in 1..nhist : /\ request'[nsys + i] = hist[Len(hist) - nhist + i]
                                   /\ request'[nsys + i].role # "system"
            /\ LastOf(request') = Message("user", user_input) ]_vars

\* a crisis input is sent while the log is full: 3 system and 10 history Messages
WitnessCrisisRequestOnFullLog ==
    /\ pc = "stream"
    /\ is_crisis
    /\ Len(fileData) = 20
    /\ Len(request) = 13

CrisisBlockAppendedIntact ==
    (pc = "print" /\ outcome = "ok") =>
        IF is_crisis
        THEN returned = << clean_response(strip(replace(streamed, "</s>", "")))
                           \o "\n\n" \o get_crisis_resources >>
        ELSE ~contains(returned[1], get_crisis_resources)

\* C6: check_crisis_keywords is true exactly when a keyword occurs somewhere
\* in the lower-cased text, and it changes nothing else
KeywordAt(text, k, i) ==
    /\ i + Len(CRISIS_KEYWORDS[k]) - 1 <= Len(text)
    /\ SubSeq(text, i, i + Len(CRISIS_KEYWORDS[k]) - 1) = CRISIS_KEYWORDS[k]

CrisisIffKeywordSubstring ==
    /\ [](pc = "checked" =>
            (is_crisis <=> \E k \in 1..Len(CRISIS_KEYWORDS) :
                              \E i \in 1..Len(user_input) :
                                 KeywordAt(lower(user_input), k, i)))
    /\ [][pc = "check" => UNCHANGED <<user_input, file, messages, request>>]_vars

\* a keyword in capitals inside a longer word is detected
WitnessCrisisInsideWord ==
    /\ pc = "checked"
    /\ user_input = "xHOPELESSx"
    /\ is_crisis

\* C7: a line that is an exit word once trimmed and lower-cased ends the loop,
\* an empty or blank line keeps it running, and neither runs a turn
LineRead == pc = "input" /\ stdin_line' # <<>>

ExitAndEmptyLinesRunNoTurn ==
    [][ LineRead =>
        /\ lower(strip(stdin_line'[1])) \in EXIT_WORDS =>
              /\ pc' = "terminated"
              /\ UNCHANGED <<file, turn_locals, turns>>
        /\ strip(stdin_line'[1]) = "" =>
              /\ pc' = "input"
              /\ UNCHANGED <<file, turn_locals, turns>> ]_vars

\* "  Quit  " has ended a session that had a log
WitnessQuitWithSpaces ==
    /\ pc = "terminated"
    /\ stdin_line = <<"  Quit  ">>
    /\ fileData # <<>>

\* C8 (as claimed): the content stored for the assistant Message of a
\* successful turn is the string returned to the caller
StoredReplyIsReturnedText ==
    (pc = "print" /\ outcome = "ok") =>
        returned = <<LastOf(fileData).content>>

\* C9: the loop ends only on an exit word or KeyboardInterrupt and does
\* nothing afterwards; any other exception reaches main's handler, which goes
\* on with the next iteration and does not write the log
CliLoopOnlyEndsOnExitOrInterrupt ==
    [][ /\ pc # "terminated"
        /\ pc' = "terminated" =>
              \/ raised' = "KeyboardInterrupt"
              \/ /\ LineRead
                 /\ lower(strip(stdin_line'[1])) \in EXIT_WORDS
        /\ raised' \in {"EOFError", "OSError"} => pc' = "except"
        /\ pc = "except" => (pc' = "input" /\ file' = file) ]_vars

\* an exception left mental_health_chatbot and is about to be handled by main
WitnessFaultEscapesOrchestrator ==
    /\ pc = "except"
    /\ raised = "OSError"
    /\ outcome = "save_raise"
    /\ fileData # <<>>

\* C10: the persisted log has even length and alternates user, assistant
LogAlternatesUserAssistant ==
    /\ Len(fileData) % 2 = 0
    /\ \A i \in 1..Len(fileData) :
          fileData[i].role = (IF i % 2 = 1 THEN "user" ELSE "assistant")

\* a turn faulted after its user Message was appended to a full log
WitnessFaultAfterUserAppended ==
    /\ pc = "print"
    /\ outcome = "stream_raise"
    /\ Len(messages) = 21
    /\ LastOf(messages).role = "user"
    /\ fileData = <<>>

====
